---- MODULE Spec2Model ----
(***************************************************************************)
(* A model of run_railway_pagerank.py: the two CSV loaders, the graph      *)
(* filter, the PageRank stage, the log scaling of the node sizes, the      *)
(* top-15 label selection and the rendering stages of the main script.     *)
(*                                                                         *)
(* Text is modelled as a sequence of characters; the character "Zhan"      *)
(* stands for the designator character of the station names.  A field     *)
(* that csv.DictReader leaves out (Python's None) is the value None.        *)
(***************************************************************************)
EXTENDS Integers, Sequences, FiniteSets, TLC

VARIABLES
  pc,               \* position of the main script
  G,                \* the DiGraph built from the line file
  pos,              \* the name -> (lon, lat) dictionary
  lineRows,         \* the line records, when the Edge Loader is run on its own
  coordRows,        \* the coordinate records, when the Coordinate Loader is run on its own
  lineStatus,       \* how opening/reading the line file went
  coordStatus,      \* how opening/reading the coordinate file went
  mapStatus,        \* how loading/plotting the background map went
  G_filtered,       \* the subgraph view on valid_nodes
  pos_filtered,     \* pos restricted to valid_nodes
  pagerank_scores,  \* the dict nx.pagerank returns, in its own order
  scoreDen,         \* common denominator of the scores
  sizes_log,        \* log10(scores + 1e-9), in the order of G_filtered.nodes()
  node_sizes_scaled,\* the display sizes, in the order of G_filtered.nodes()
  sorted_stations,  \* the items of pagerank_scores sorted by score, descending
  labels_to_draw,   \* the stations that get a label
  canvas,           \* what has been drawn on the figure
  stdout,           \* messages printed to the standard output
  stderr,           \* messages printed to the error stream
  trace             \* the stages carried out so far, in order

vars == <<pc, G, pos, lineRows, coordRows, lineStatus, coordStatus, mapStatus,
          G_filtered, pos_filtered, pagerank_scores, scoreDen, sizes_log,
          node_sizes_scaled, sorted_stations, labels_to_draw, canvas,
          stdout, stderr, trace>>

----------------------------------------------------------------------------
(* Bounds of the model.                                                    *)

MaxLineRows == 3
MaxCoordRows == 2
MaxPipeRows == 2
MaxPipeCoordRows == 3
PRIters == 2
MaxLabelNodes == 16

----------------------------------------------------------------------------
(* Text and sequences.                                                     *)

None == <<"None">>
Designator == "Zhan"

\* Python's truth value of a field: None and the empty string are false.
Truthy(v) == v # None /\ v # <<>>

Range(s) == {s[i] : i \in 1..Len(s)}

SeqsUpTo(S, n) == UNION {[1..k -> S] : k \in 0..n}

Min(a, b) == IF a <= b THEN a ELSE b

----------------------------------------------------------------------------
(* The Edge Loader.                                                        *)

EmptyGraph == [nodes |-> <<>>, edges |-> {}]

\* DiGraph.add_node: a node already present keeps its place.
add_node(nodes, n) == IF n \in Range(nodes) THEN nodes ELSE Append(nodes, n)

\* DiGraph.add_edge(u, v): both endpoints become nodes, the edge set gains (u, v).
add_edge(graph, u, v) ==
  [nodes |-> add_node(add_node(graph.nodes, u), v),
   edges |-> graph.edges \cup {<<u, v>>}]

\* A slip: 'or' in place of 'and' in the test of the two fields.
LineRowStep_or(graph, row) ==
  IF Truthy(row.src) \/ Truthy(row.dst)
    THEN add_edge(graph, row.src, row.dst)
    ELSE graph

\* The body of the loop over the line records.
LineRowStep(graph, row) ==
  IF Truthy(row.src) /\ Truthy(row.dst)
    THEN add_edge(graph, row.src, row.dst)
    ELSE graph

\* The loop over the line records, from the first to the last.
RECURSIVE ReadLineRows(_, _)
ReadLineRows(rows, graph) ==
  IF rows = <<>> THEN graph
  ELSE ReadLineRows(Tail(rows), LineRowStep(graph, Head(rows)))

\* How a file can behave: it opens and yields all its records ("ok"), it is
\* absent ("notfound"), open() fails otherwise ("open_error"), or reading it
\* raises after the records given were yielded ("parse_error").
FileStatuses == {"ok", "notfound", "open_error", "parse_error"}

\* build_graph_from_csv: the graph it leaves, its return value and its prints.
build_graph_from_csv(status, rows, graph) ==
  CASE status = "notfound" ->
         [graph |-> graph, ret |-> FALSE, out |-> <<>>,
          err |-> <<"err_line_not_found">>]
    [] status = "open_error" ->
         [graph |-> graph, ret |-> FALSE, out |-> <<>>,
          err |-> <<"err_line_parse">>]
    [] status = "parse_error" ->
         [graph |-> ReadLineRows(rows, graph), ret |-> FALSE,
          out |-> <<"line_csv_detected">>, err |-> <<"err_line_parse">>]
    [] OTHER ->
         LET g == ReadLineRows(rows, graph) IN
         [graph |-> g, ret |-> TRUE,
          out |-> <<"line_csv_detected">> \o
                  (IF Len(g.nodes) = 0 THEN <<"warn_graph_empty">> ELSE <<>>),
          err |-> <<>>]

----------------------------------------------------------------------------
(* The Coordinate Loader.                                                  *)

Digits == {"0", "1", "2", "3", "4", "5", "6", "7", "8", "9"}

DigitVal(c) ==
  CASE c = "0" -> 0 [] c = "1" -> 1 [] c = "2" -> 2 [] c = "3" -> 3
    [] c = "4" -> 4 [] c = "5" -> 5 [] c = "6" -> 6 [] c = "7" -> 7
    [] c = "8" -> 8 [] c = "9" -> 9

NaN == [kind |-> "nan", mant |-> 0, frac |-> 0]
Inf == [kind |-> "inf", mant |-> 0, frac |-> 0]
ValueError == [kind |-> "ValueError", mant |-> 0, frac |-> 0]

\* The value of a digit string, most significant digit first.
RECURSIVE DigitsValue(_, _)
DigitsValue(text, acc) ==
  IF text = <<>> THEN acc
  ELSE DigitsValue(Tail(text), 10 * acc + DigitVal(Head(text)))

\* A decimal without trailing zeros in its fraction: 1.0 and 1 are one float.
RECURSIVE Finite(_, _)
Finite(mant, frac) ==
  IF frac > 0 /\ mant % 10 = 0 THEN Finite(mant \div 10, frac - 1)
  ELSE [kind |-> "finite", mant |-> mant, frac |-> frac]

\* Python's float() on text made of digits, '.' and letters: "nan" and "inf"
\* are floats, a digit string with at most one '.' is a decimal, and anything
\* else raises ValueError.
float(text) ==
  LET dots   == {i \in 1..Len(text) : text[i] = "."}
      digits == SelectSeq(text, LAMBDA c : c \in Digits)
  IN  IF text = <<"n", "a", "n">> THEN NaN
      ELSE IF text = <<"i", "n", "f">> THEN Inf
      ELSE IF /\ \A i \in 1..Len(text) : text[i] \in Digits \cup {"."}
              /\ Cardinality(dots) <= 1
              /\ digits # <<>>
        THEN Finite(DigitsValue(digits, 0),
                    IF dots = {} THEN 0
                    ELSE Len(text) - (CHOOSE i \in dots : TRUE))
        ELSE ValueError

\* str.endswith('站')
endswith(name, c) == Len(name) > 0 /\ name[Len(name)] = c

\* A slip: rstrip('站') in place of removing one character.
RECURSIVE StationKey_rstrip(_)
StationKey_rstrip(name) ==
  IF endswith(name, Designator)
    THEN StationKey_rstrip(SubSeq(name, 1, Len(name) - 1))
    ELSE name

\* The name a coordinate record is stored under: name[:-1] when it ends with
\* the designator.
StationKey(name) ==
  IF endswith(name, Designator) THEN SubSeq(name, 1, Len(name) - 1) ELSE name

\* dict assignment d[k] = v
DictPut(d, k, v) == [x \in DOMAIN d \cup {k} |-> IF x = k THEN v ELSE d[x]]

\* The body of the loop over the coordinate records; a ValueError raised by
\* float() is caught and leaves the dictionary as it was.
CoordRowStep(d, row) ==
  IF Truthy(row.name) /\ Truthy(row.lon) /\ Truthy(row.lat)
    THEN LET lon == float(row.lon)
             lat == float(row.lat)
         IN  IF lon = ValueError \/ lat = ValueError THEN d
             ELSE DictPut(d, StationKey(row.name), <<lon, lat>>)
    ELSE d

RECURSIVE ReadCoordRows(_, _)
ReadCoordRows(rows, d) ==
  IF rows = <<>> THEN d
  ELSE ReadCoordRows(Tail(rows), CoordRowStep(d, Head(rows)))

EmptyDict == <<>>

\* load_coordinates_from_csv: the dictionary it returns (isNone: it returns
\* None) and its prints.
load_coordinates_from_csv(status, rows) ==
  CASE status = "notfound" ->
         [isNone |-> TRUE, pos |-> EmptyDict, out |-> <<>>,
          err |-> <<"err_coord_not_found">>]
    [] status = "open_error" ->
         [isNone |-> TRUE, pos |-> EmptyDict, out |-> <<>>,
          err |-> <<"err_coord_parse">>]
    [] status = "parse_error" ->
         [isNone |-> TRUE, pos |-> EmptyDict,
          out |-> <<"coord_csv_detected">>, err |-> <<"err_coord_parse">>]
    [] OTHER ->
         LET d == ReadCoordRows(rows, EmptyDict) IN
         [isNone |-> FALSE, pos |-> d,
          out |-> <<"coord_csv_detected">> \o
                  (IF DOMAIN d = {} THEN <<"warn_pos_empty">> ELSE <<>>),
          err |-> <<>>]

----------------------------------------------------------------------------
(* The Graph Filter.                                                       *)

Perms(S) == {s \in [1..Cardinality(S) -> S] : Range(s) = S}

\* valid_nodes = list(nodes_in_graph.intersection(nodes_with_coords))
valid_nodes(graph, d) == Range(graph.nodes) \cap DOMAIN d

\* A slip: an edge kept when its source alone is valid.
subgraph_srcOnly(graph, valid, order) ==
  [nodes |-> order, edges |-> {e \in graph.edges : e[1] \in valid}]

\* G.subgraph(valid): the nodes of the view in the order `order`, and the
\* edges of the graph with both endpoints in valid.
subgraph(graph, valid, order) ==
  [nodes |-> order,
   edges |-> {e \in graph.edges : e[1] \in valid /\ e[2] \in valid}]

\* {node: coords for node, coords in pos.items() if node in valid_nodes}
RestrictDict(d, valid) == [k \in {x \in DOMAIN d : x \in valid} |-> d[k]]

----------------------------------------------------------------------------
(* The Ranking Engine: nx.pagerank with its defaults (alpha = 0.85,        *)
(* tol = 1e-6, uniform personalization and dangling weights).  A score is  *)
(* the integer numerator of a fraction over a denominator common to all    *)
(* nodes, so the arithmetic is exact.                                      *)

RECURSIVE SumSeq(_)
SumSeq(s) == IF s = <<>> THEN 0 ELSE Head(s) + SumSeq(Tail(s))

RECURSIVE Factorial(_)
Factorial(n) == IF n <= 1 THEN 1 ELSE n * Factorial(n - 1)

Abs(x) == IF x < 0 THEN -x ELSE x

OutDegree(graph, u) == Cardinality({e \in graph.edges : e[1] = u})

\* One power iteration on x (numerators over den):
\*   x = alpha * (x @ A + sum(x[is_dangling]) * dangling_weights) + (1 - alpha) * p
\* with alpha = 17/20 and p = dangling_weights = 1/N.  The new denominator is
\* den * 20 * N * N!, which every out-degree divides.
PowerStep(graph, x, den) ==
  LET nodes == graph.nodes
      N     == Len(nodes)
      L     == Factorial(N)
      dangling == {i \in 1..N : OutDegree(graph, nodes[i]) = 0}
      danglesum == SumSeq([i \in 1..N |-> IF i \in dangling THEN x[i] * L ELSE 0])
      inflow(v) ==
        SumSeq([i \in 1..N |->
                  IF <<nodes[i], nodes[v]>> \in graph.edges
                    THEN x[i] * (L \div OutDegree(graph, nodes[i])) * N
                    ELSE 0])
  IN  [x   |-> [v \in 1..N |-> 17 * (inflow(v) + danglesum) + 3 * L * den],
       den |-> den * 20 * N * L]

\* The loop of nx.pagerank: it returns when the L1 change is below N * tol.
\* left is the number of iterations the model still carries out; the iterate
\* reached then stands for the converged one.
RECURSIVE PowerIteration(_, _, _, _)
PowerIteration(graph, x, den, left) ==
  LET N    == Len(graph.nodes)
      nxt  == PowerStep(graph, x, den)
      old  == [v \in 1..N |-> x[v] * 20 * N * Factorial(N)]
      err  == SumSeq([v \in 1..N |-> Abs(nxt.x[v] - old[v])])
  IN  IF left = 0 THEN [x |-> x, den |-> den]
      ELSE IF err <= (N * nxt.den - 1) \div 1000000 THEN nxt
      ELSE PowerIteration(graph, nxt.x, nxt.den, left - 1)

\* nx.pagerank(graph): a dict, in the order of the graph's nodes, from node to
\* score; the empty dict for a graph without nodes.
pagerank(graph) ==
  LET N == Len(graph.nodes) IN
  IF N = 0 THEN [scores |-> <<>>, den |-> 1]
  ELSE LET r == PowerIteration(graph, [v \in 1..N |-> 1], N, PRIters) IN
       [scores |-> [v \in 1..N |-> <<graph.nodes[v], r.x[v]>>], den |-> r.den]

----------------------------------------------------------------------------
(* Visual Scaling.  A logarithm is a fixed-point number in units of 1/1024, *)
(* a display size a float: NaN, or a number in thousandths.                *)

min_display_size == 5
max_display_size == 300

\* n >= 1 brought to four digits, with the power of ten taken out.
RECURSIVE Normalise(_, _)
Normalise(n, e) ==
  IF n >= 10000 THEN Normalise(n \div 10, e + 1)
  ELSE IF n < 1000 THEN Normalise(n * 10, e - 1)
  ELSE [m |-> n, e |-> e]

\* The binary digits of log10(m / 1000) for 1000 <= m < 10000, by squaring.
RECURSIVE LogBits(_, _, _)
LogBits(m, bits, acc) ==
  IF bits = 0 THEN acc
  ELSE LET sq == (m * m) \div 1000 IN
       IF sq >= 10000 THEN LogBits(sq \div 10, bits - 1, 2 * acc + 1)
       ELSE LogBits(sq, bits - 1, 2 * acc)

\* log10 of the integer n >= 1, in units of 1/1024.
Log10Int(n) ==
  LET r == Normalise(n, 3) IN r.e * 1024 + LogBits(r.m, 10, 0)

\* np.log10(score + 1e-9) for the score num / den: log10(1e-9) for a zero
\* score; for the others 1e-9 is below the resolution.
log10(num, den) ==
  IF num = 0 THEN -9 * 1024 ELSE Log10Int(num) - Log10Int(den)

RECURSIVE SeqMin(_)
SeqMin(s) ==
  IF Len(s) = 1 THEN s[1]
  ELSE LET m == SeqMin(Tail(s)) IN IF s[1] <= m THEN s[1] ELSE m

RECURSIVE SeqMax(_)
SeqMax(s) ==
  IF Len(s) = 1 THEN s[1]
  ELSE LET m == SeqMax(Tail(s)) IN IF s[1] >= m THEN s[1] ELSE m

SizeNaN == [nan |-> TRUE, milli |-> 0]
Size(milli) == [nan |-> FALSE, milli |-> milli]

\* pagerank_scores.get(node, 0)
ScoreOf(scores, node) ==
  IF \E i \in 1..Len(scores) : scores[i][1] = node
    THEN scores[CHOOSE i \in 1..Len(scores) : scores[i][1] = node][2]
    ELSE 0

\* sizes_log = np.log10(scores + 1e-9), scores in the order of G_filtered.nodes()
SizesLog(graph, scores, den) ==
  [i \in 1..Len(graph.nodes) |-> log10(ScoreOf(scores, graph.nodes[i]), den)]

\* norm_sizes * (max_display_size - min_display_size) + min_display_size with
\* norm_sizes = (sizes_log - min) / (max - min): numpy divides 0.0 by 0.0
\* to nan (a RuntimeWarning, no exception).
ScaleSizes(logs) ==
  LET lo == SeqMin(logs)
      hi == SeqMax(logs)
  IN  [i \in 1..Len(logs) |->
         IF hi - lo = 0 THEN SizeNaN
         ELSE Size(((logs[i] - lo) * (max_display_size - min_display_size) * 1000)
                     \div (hi - lo) + min_display_size * 1000)]

----------------------------------------------------------------------------
(* The Label Selector.                                                     *)

TopK == 15

\* A slip: a sort that puts an item before the items of equal score.
RECURSIVE InsertByScore_notStable(_, _)
InsertByScore_notStable(sorted, item) ==
  IF sorted = <<>> THEN <<item>>
  ELSE IF Head(sorted)[2] > item[2]
    THEN <<Head(sorted)>> \o InsertByScore_notStable(Tail(sorted), item)
    ELSE <<item>> \o sorted

\* item put behind the items of the sorted sequence whose score is not less
\* than its own: equal scores keep the order they came in.
RECURSIVE InsertByScore(_, _)
InsertByScore(sorted, item) ==
  IF sorted = <<>> THEN <<item>>
  ELSE IF Head(sorted)[2] >= item[2]
    THEN <<Head(sorted)>> \o InsertByScore(Tail(sorted), item)
    ELSE <<item>> \o sorted

\* sorted(pagerank_scores.items(), key=lambda item: item[1], reverse=True):
\* Python's sort is stable, also with reverse=True.
RECURSIVE SortedByScore(_, _)
SortedByScore(items, acc) ==
  IF items = <<>> THEN acc
  ELSE SortedByScore(Tail(items), InsertByScore(acc, Head(items)))

\* sorted_stations[:15]
FirstK(s, k) == SubSeq(s, 1, Min(k, Len(s)))

\* The keys of labels_to_draw, in the order the loop inserts them.
LabelKeys(sorted) == [i \in 1..Len(FirstK(sorted, TopK)) |-> sorted[i][1]]

----------------------------------------------------------------------------
(* The values the variables hold before the stage that sets them.          *)

EmptyCanvas ==
  [background |-> FALSE, edges |-> {}, nodes |-> <<>>, sizes |-> <<>>,
   texts |-> {}, shown |-> FALSE]

NotRunYet ==
  /\ mapStatus = "unread"
  /\ G_filtered = EmptyGraph
  /\ pos_filtered = EmptyDict
  /\ pagerank_scores = <<>>
  /\ scoreDen = 1
  /\ sizes_log = <<>>
  /\ node_sizes_scaled = <<>>
  /\ sorted_stations = <<>>
  /\ labels_to_draw = <<>>
  /\ canvas = EmptyCanvas
  /\ stdout = <<>>
  /\ stderr = <<>>
  /\ trace = <<>>

renderVars ==
  <<mapStatus, G_filtered, pos_filtered, pagerank_scores, scoreDen, sizes_log,
    node_sizes_scaled, sorted_stations, labels_to_draw, canvas>>

----------------------------------------------------------------------------
(* The Edge Loader on its own: every sequence of line records.             *)

LineFields == {None, <<>>, <<"A">>, <<"B">>}
LineRows == [src : LineFields, dst : LineFields]

InitEdges ==
  /\ pc = "build_graph_from_csv"
  /\ lineRows \in SeqsUpTo(LineRows, MaxLineRows)
  /\ coordRows = <<>>
  /\ G = EmptyGraph
  /\ pos = EmptyDict
  /\ lineStatus = "unread"
  /\ coordStatus = "unread"
  /\ NotRunYet

EdgeLoaderRun ==
  /\ pc = "build_graph_from_csv"
  /\ \E status \in FileStatuses :
       LET r == build_graph_from_csv(status, lineRows, G) IN
       /\ lineStatus' = status
       /\ G' = r.graph
       /\ stdout' = stdout \o r.out
       /\ stderr' = stderr \o r.err
       /\ pc' = IF r.ret THEN "returned_True" ELSE "returned_False"
  /\ UNCHANGED <<pos, lineRows, coordRows, coordStatus, renderVars, trace>>

NextEdges == EdgeLoaderRun

SpecEdges == InitEdges /\ [][NextEdges]_vars

----------------------------------------------------------------------------
(* The Coordinate Loader on its own: every sequence of coordinate records. *)

CoordNames ==
  {None, <<"A">>, <<"A", "Zhan">>, <<"A", "Zhan", "Zhan">>, <<"Zhan">>}
LonTexts == {None, <<"1", ".">>, <<"x">>, <<"n", "a", "n">>}
LatTexts == {<<>>, <<"2", ".", "5">>, <<"i", "n", "f">>}
CoordRows == [name : CoordNames, lon : LonTexts, lat : LatTexts]

InitCoords ==
  /\ pc = "load_coordinates_from_csv"
  /\ coordRows \in SeqsUpTo(CoordRows, MaxCoordRows)
  /\ lineRows = <<>>
  /\ G = EmptyGraph
  /\ pos = EmptyDict
  /\ lineStatus = "unread"
  /\ coordStatus = "unread"
  /\ NotRunYet

CoordLoaderRun ==
  /\ pc = "load_coordinates_from_csv"
  /\ \E status \in FileStatuses :
       LET r == load_coordinates_from_csv(status, coordRows) IN
       /\ coordStatus' = status
       /\ pos' = r.pos
       /\ stdout' = stdout \o r.out
       /\ stderr' = stderr \o r.err
       /\ pc' = IF r.isNone THEN "returned_None" ELSE "returned_pos"
  /\ UNCHANGED <<G, lineRows, coordRows, lineStatus, renderVars, trace>>

NextCoords == CoordLoaderRun

SpecCoords == InitCoords /\ [][NextCoords]_vars

----------------------------------------------------------------------------
(* The main script, stage by stage.                                        *)

PipeNames == {<<"A">>, <<"B">>, <<"C">>}
PipeLineFields == PipeNames \cup {None}
PipeLineRows == [src : PipeLineFields, dst : PipeLineFields]
PipeCoordNames == {<<"A">>, <<"B", "Zhan">>, <<"C">>}
PipeCoordRows ==
  [name : PipeCoordNames, lon : {<<"1">>}, lat : {<<"2">>}]
    \cup {[name |-> <<"A">>, lon |-> <<"x">>, lat |-> <<"2">>]}

\* The records a file yields: none when it cannot be opened.
RowsOf(status, rowSeqs) ==
  IF status \in {"notfound", "open_error"} THEN {<<>>} ELSE rowSeqs

Init ==
  /\ pc = "load_edges"
  /\ lineRows = <<>>
  /\ coordRows = <<>>
  /\ G = EmptyGraph
  /\ pos = EmptyDict
  /\ lineStatus = "unread"
  /\ coordStatus = "unread"
  /\ NotRunYet

\* Stage 1: G = nx.DiGraph(); sys.exit() unless build_graph_from_csv succeeds.
LoadEdges ==
  /\ pc = "load_edges"
  /\ \E status \in FileStatuses :
     \E rows \in RowsOf(status, SeqsUpTo(PipeLineRows, MaxPipeRows)) :
       LET r == build_graph_from_csv(status, rows, EmptyGraph) IN
       /\ lineStatus' = status
       /\ G' = r.graph
       /\ stdout' = stdout \o <<"1_loading">> \o r.out \o
                      (IF r.ret THEN <<"graph_loaded">> ELSE <<>>)
       /\ stderr' = stderr \o r.err
       /\ pc' = IF r.ret THEN "load_coords" ELSE "exited"
       /\ trace' = IF r.ret THEN Append(trace, "edge_load") ELSE trace
  /\ UNCHANGED <<pos, lineRows, coordRows, coordStatus, renderVars>>

\* Stage 2: pos = load_coordinates_from_csv(...); sys.exit() if not pos.
LoadCoords ==
  /\ pc = "load_coords"
  /\ \E status \in FileStatuses :
     \E rows \in RowsOf(status, SeqsUpTo(PipeCoordRows, MaxPipeCoordRows)) :
       LET r    == load_coordinates_from_csv(status, rows)
           fail == r.isNone \/ DOMAIN r.pos = {}
       IN
       /\ coordStatus' = status
       /\ pos' = r.pos
       /\ stdout' = stdout \o <<"2_loading_coords">> \o r.out \o
                      (IF fail THEN <<"coords_failed_exit">> ELSE <<"coords_loaded">>)
       /\ stderr' = stderr \o r.err
       /\ pc' = IF fail THEN "exited" ELSE "filter"
       /\ trace' = IF fail THEN trace ELSE Append(trace, "coord_load")
  /\ UNCHANGED <<G, lineRows, coordRows, lineStatus, renderVars>>

\* A slip: the test of valid_nodes left out, so that the script goes on.
FilterStage_noExit(valid) ==
  /\ \E order \in Perms(valid) : G_filtered' = subgraph(G, valid, order)
  /\ pos_filtered' = RestrictDict(pos, valid)
  /\ stdout' = stdout \o <<"3_filtering", "filtered_count">>
  /\ pc' = "rank"
  /\ trace' = Append(trace, "filter")

\* Stage 3: the graph and the coordinates restricted to the stations that have
\* both; sys.exit() when there is none.  The nodes of the subgraph view come in
\* an order of the library's choosing.
FilterStage(valid) ==
  IF valid = {}
    THEN /\ stdout' = stdout \o <<"3_filtering", "err_no_intersection">>
         /\ pc' = "exited"
         /\ UNCHANGED <<G_filtered, pos_filtered, trace>>
    ELSE /\ \E order \in Perms(valid) : G_filtered' = subgraph(G, valid, order)
         /\ pos_filtered' = RestrictDict(pos, valid)
         /\ stdout' = stdout \o <<"3_filtering", "filtered_count">>
         /\ pc' = "rank"
         /\ trace' = Append(trace, "filter")

Filter ==
  /\ pc = "filter"
  /\ FilterStage(valid_nodes(G, pos))
  /\ UNCHANGED <<G, pos, lineRows, coordRows, lineStatus, coordStatus, mapStatus,
                 pagerank_scores, scoreDen, sizes_log, node_sizes_scaled,
                 sorted_stations, labels_to_draw, canvas, stderr>>

\* A slip: the whole graph ranked.
RankInput_unfiltered == G

\* The graph handed to nx.pagerank.
RankInput == G_filtered

\* Stage 4: pagerank_scores = nx.pagerank(G_filtered)
Rank ==
  /\ pc = "rank"
  /\ LET r == pagerank(RankInput) IN
       /\ pagerank_scores' = r.scores
       /\ scoreDen' = r.den
  /\ stdout' = Append(stdout, "4_pagerank")
  /\ pc' = "scale"
  /\ trace' = Append(trace, "rank")
  /\ UNCHANGED <<G, pos, lineRows, coordRows, lineStatus, coordStatus, mapStatus,
                 G_filtered, pos_filtered, sizes_log, node_sizes_scaled,
                 sorted_stations, labels_to_draw, canvas, stderr>>

\* Stage 5: the display sizes.  np.min of an empty array raises ValueError,
\* which nothing catches.
Scale ==
  /\ pc = "scale"
  /\ sizes_log' = SizesLog(G_filtered, pagerank_scores, scoreDen)
  /\ stdout' = Append(stdout, "5_scaling")
  /\ IF sizes_log' = <<>>
       THEN /\ node_sizes_scaled' = node_sizes_scaled
            /\ stderr' = Append(stderr, "traceback")
            /\ pc' = "exited"
            /\ trace' = trace
       ELSE /\ node_sizes_scaled' = ScaleSizes(sizes_log')
            /\ stderr' = stderr
            /\ pc' = "labels"
            /\ trace' = Append(trace, "scale")
  /\ UNCHANGED <<G, pos, lineRows, coordRows, lineStatus, coordStatus, mapStatus,
                 G_filtered, pos_filtered, pagerank_scores, scoreDen,
                 sorted_stations, labels_to_draw, canvas>>

\* Stage 6: the top 15 stations, each printed with its score.
SelectLabels ==
  /\ pc = "labels"
  /\ sorted_stations' = SortedByScore(pagerank_scores, <<>>)
  /\ labels_to_draw' = LabelKeys(sorted_stations')
  /\ stdout' = stdout \o <<"6_top15", "top15_header">> \o
                 [i \in 1..Len(labels_to_draw') |-> "rank_line"]
  /\ pc' = "background"
  /\ trace' = Append(trace, "labels")
  /\ UNCHANGED <<G, pos, lineRows, coordRows, lineStatus, coordStatus, mapStatus,
                 G_filtered, pos_filtered, pagerank_scores, scoreDen, sizes_log,
                 node_sizes_scaled, canvas, stderr>>

\* A slip: the exception of the background map not caught.
BackgroundStage_abort(status) ==
  /\ mapStatus' = status
  /\ canvas' = [canvas EXCEPT !.background = (status = "ok")]
  /\ stderr' = IF status = "ok" THEN stderr ELSE Append(stderr, "traceback")
  /\ pc' = IF status = "ok" THEN "draw_edges" ELSE "exited"

\* Stage 7, the background map: an exception of gpd.read_file or of the plot is
\* caught and reported on the error stream.
BackgroundStage(status) ==
  /\ mapStatus' = status
  /\ canvas' = [canvas EXCEPT !.background = (status = "ok")]
  /\ stderr' = IF status = "ok" THEN stderr ELSE Append(stderr, "warn_map")
  /\ pc' = "draw_edges"

Background ==
  /\ pc = "background"
  /\ \E status \in {"ok", "failed"} : BackgroundStage(status)
  /\ stdout' = Append(stdout, "7_drawing")
  /\ trace' = Append(trace, "background")
  /\ UNCHANGED <<G, pos, lineRows, coordRows, lineStatus, coordStatus,
                 G_filtered, pos_filtered, pagerank_scores, scoreDen, sizes_log,
                 node_sizes_scaled, sorted_stations, labels_to_draw>>

\* nx.draw_networkx_edges(G_filtered, pos_filtered, ...)
DrawEdges ==
  /\ pc = "draw_edges"
  /\ canvas' = [canvas EXCEPT !.edges = G_filtered.edges]
  /\ pc' = "draw_nodes"
  /\ trace' = Append(trace, "edges")
  /\ UNCHANGED <<G, pos, lineRows, coordRows, lineStatus, coordStatus, mapStatus,
                 G_filtered, pos_filtered, pagerank_scores, scoreDen, sizes_log,
                 node_sizes_scaled, sorted_stations, labels_to_draw, stdout, stderr>>

\* nx.draw_networkx_nodes(G_filtered, pos_filtered, node_size=node_sizes_scaled, ...)
DrawNodes ==
  /\ pc = "draw_nodes"
  /\ canvas' = [canvas EXCEPT !.nodes = G_filtered.nodes,
                              !.sizes = node_sizes_scaled]
  /\ pc' = "draw_labels"
  /\ trace' = Append(trace, "nodes")
  /\ UNCHANGED <<G, pos, lineRows, coordRows, lineStatus, coordStatus, mapStatus,
                 G_filtered, pos_filtered, pagerank_scores, scoreDen, sizes_log,
                 node_sizes_scaled, sorted_stations, labels_to_draw, stdout, stderr>>

\* A text for every station of pos_filtered that is in labels_to_draw, then
\* adjust_text.
DrawLabels ==
  /\ pc = "draw_labels"
  /\ canvas' = [canvas EXCEPT !.texts =
                   {st \in DOMAIN pos_filtered : st \in Range(labels_to_draw)}]
  /\ pc' = "show"
  /\ trace' = Append(trace, "texts")
  /\ UNCHANGED <<G, pos, lineRows, coordRows, lineStatus, coordStatus, mapStatus,
                 G_filtered, pos_filtered, pagerank_scores, scoreDen, sizes_log,
                 node_sizes_scaled, sorted_stations, labels_to_draw, stdout, stderr>>

\* plt.show()
Show ==
  /\ pc = "show"
  /\ canvas' = [canvas EXCEPT !.shown = TRUE]
  /\ pc' = "done"
  /\ trace' = Append(trace, "show")
  /\ UNCHANGED <<G, pos, lineRows, coordRows, lineStatus, coordStatus, mapStatus,
                 G_filtered, pos_filtered, pagerank_scores, scoreDen, sizes_log,
                 node_sizes_scaled, sorted_stations, labels_to_draw, stdout, stderr>>

Next ==
  \/ LoadEdges
  \/ LoadCoords
  \/ Filter
  \/ Rank
  \/ Scale
  \/ SelectLabels
  \/ Background
  \/ DrawEdges
  \/ DrawNodes
  \/ DrawLabels
  \/ Show

Spec == Init /\ [][Next]_vars

----------------------------------------------------------------------------
(* The Label Selector on its own: every ScoreMap of up to MaxLabelNodes    *)
(* stations, so that there are more stations than labels.                  *)

LabelScores == {1, 2}

\* The station of the i-th entry of a ScoreMap.
Station(i) == <<"S", i>>

InitLabels ==
  /\ pc = "labels"
  /\ \E n \in 1..MaxLabelNodes :
       \E sc \in [1..n -> LabelScores] :
         /\ pagerank_scores = [i \in 1..n |-> <<Station(i), sc[i]>>]
         /\ scoreDen = SumSeq(sc)
  /\ lineRows = <<>>
  /\ coordRows = <<>>
  /\ G = EmptyGraph
  /\ pos = EmptyDict
  /\ lineStatus = "unread"
  /\ coordStatus = "unread"
  /\ mapStatus = "unread"
  /\ G_filtered = EmptyGraph
  /\ pos_filtered = EmptyDict
  /\ sizes_log = <<>>
  /\ node_sizes_scaled = <<>>
  /\ sorted_stations = <<>>
  /\ labels_to_draw = <<>>
  /\ canvas = EmptyCanvas
  /\ stdout = <<>>
  /\ stderr = <<>>
  /\ trace = <<>>

NextLabels == SelectLabels

SpecLabels == InitLabels /\ [][NextLabels]_vars

----------------------------------------------------------------------------
(* Claims about the loaders.                                               *)

Present(v) == v # None /\ v # <<>>

\* C2: when build_graph_from_csv has read every record, the edges of the graph
\* are exactly the (src, dst) pairs of the records whose src and dst are both
\* present and non-empty; the other records add nothing and a pair that occurs
\* several times is one edge.
C2_EdgesExact ==
  pc = "returned_True" =>
    G.edges = {<<lineRows[i].src, lineRows[i].dst>> :
                 i \in {j \in 1..Len(lineRows) :
                          Present(lineRows[j].src) /\ Present(lineRows[j].dst)}}

\* C2 happens: three records, the first two the same pair, the third one
\* without its src, and one edge in the graph.
C2_Witness ==
  /\ pc = "returned_True"
  /\ Len(lineRows) = 3
  /\ lineRows[1] = lineRows[2]
  /\ Present(lineRows[1].src) /\ Present(lineRows[1].dst)
  /\ lineRows[3].src = None /\ Present(lineRows[3].dst)
  /\ Cardinality(G.edges) = 1

\* The inclusion rule as the claim C6 states it.
FiniteDecimal(text) == float(text).kind = "finite"

IncludedByRule(row) ==
  /\ Present(row.name) /\ Present(row.lon) /\ Present(row.lat)
  /\ FiniteDecimal(row.lon) /\ FiniteDecimal(row.lat)

RECURSIVE DictByRule(_, _)
DictByRule(rows, d) ==
  IF rows = <<>> THEN d
  ELSE LET row == Head(rows) IN
       DictByRule(Tail(rows),
                  IF IncludedByRule(row)
                    THEN DictPut(d, StationKey(row.name),
                                 <<float(row.lon), float(row.lat)>>)
                    ELSE d)

\* C6: a coordinate record is inserted if and only if its name, longitude and
\* latitude are present and both coordinates parse as finite decimals; every
\* other record leaves the dictionary as it was.
C6_InclusionRule ==
  pc = "returned_pos" => pos = DictByRule(coordRows, EmptyDict)

\* The records the loader stores: all three fields true and float() raising
\* for neither coordinate.
Stored(row) ==
  /\ Truthy(row.name) /\ Truthy(row.lon) /\ Truthy(row.lat)
  /\ float(row.lon) # ValueError /\ float(row.lat) # ValueError

\* The key a stored record is found under, said without StationKey: the name
\* less its one trailing designator, or the name itself.
KeyOf(name, k) ==
  IF name[Len(name)] = Designator THEN k \o <<Designator>> = name ELSE k = name

\* C7: every stored coordinate record whose name ends with the designator is
\* kept under the name less exactly that one character, every other stored
\* record under its unchanged name, and the dictionary has no other key.
C7_DesignatorStripped ==
  pc = "returned_pos" =>
    LET stored == {i \in 1..Len(coordRows) : Stored(coordRows[i])} IN
    /\ \A i \in stored :
         \E k \in DOMAIN pos :
           /\ KeyOf(coordRows[i].name, k)
           /\ (\A j \in stored : j > i => ~KeyOf(coordRows[j].name, k))
                => pos[k] = <<float(coordRows[i].lon), float(coordRows[i].lat)>>
    /\ \A k \in DOMAIN pos : \E i \in stored : KeyOf(coordRows[i].name, k)

\* C7 happens: a record named A+designator+designator is stored under
\* A+designator, and a record named A under A.
C7_Witness ==
  /\ pc = "returned_pos"
  /\ Len(coordRows) = 2
  /\ coordRows[1].name = <<"A", "Zhan", "Zhan">> /\ Stored(coordRows[1])
  /\ coordRows[2].name = <<"A">> /\ Stored(coordRows[2])
  /\ DOMAIN pos = {<<"A", "Zhan">>, <<"A">>}

----------------------------------------------------------------------------
(* Claims about the main script.                                           *)

Done(stage) == \E i \in 1..Len(trace) : trace[i] = stage

Times(stage) == Cardinality({i \in 1..Len(trace) : trace[i] = stage})

\* C1: once the script is past the filter, the nodes of G_filtered are exactly
\* the nodes of G that are keys of pos, its edges exactly the edges of G with
\* both endpoints among them, and the keys of pos_filtered exactly that set.
C1_FilterExact ==
  Done("filter") =>
    LET valid == Range(G.nodes) \cap DOMAIN pos IN
    /\ Range(G_filtered.nodes) = valid
    /\ Len(G_filtered.nodes) = Cardinality(valid)
    /\ G_filtered.edges = {e \in G.edges : e[1] \in valid /\ e[2] \in valid}
    /\ DOMAIN pos_filtered = valid
    /\ \A k \in valid : pos_filtered[k] = pos[k]

\* C1 happens: the ranking stage is reached with a station of the graph that
\* has no coordinates, an edge that is dropped and one that is kept.
C1_Witness ==
  /\ pc = "rank"
  /\ Range(G.nodes) \ DOMAIN pos # {}
  /\ G_filtered.edges # {}
  /\ G_filtered.edges # G.edges

FileFailures == {"notfound", "open_error", "parse_error"}

\* A fatal condition: a file that cannot be opened or parsed, a coordinate
\* file without a usable record, or no station with both a line and coordinates.
Fatal ==
  \/ lineStatus \in FileFailures
  \/ coordStatus \in FileFailures
  \/ coordStatus = "ok" /\ DOMAIN pos = {}
  \/ coordStatus = "ok" /\ Range(G.nodes) \cap DOMAIN pos = {}

NothingRendered ==
  /\ ~Done("rank") /\ ~Done("background") /\ ~Done("edges")
  /\ ~Done("nodes") /\ ~Done("texts") /\ ~Done("show")
  /\ canvas = EmptyCanvas

\* C3: under a fatal condition the script never ranks, draws or shows
\* anything, and the step it takes, which it can take, is the exit; and a
\* figure is shown only after edge load, coordinate load, filter, ranking,
\* scaling and label selection were each done once, in that order.
C3_FatalNeverRenders ==
  /\ [](Fatal => NothingRendered)
  /\ [](Fatal => (pc = "exited" \/ ENABLED Next))
  /\ [][Fatal => pc' = "exited"]_vars
  /\ [](canvas.shown =>
          /\ Len(trace) >= 6
          /\ SubSeq(trace, 1, 6) =
               <<"edge_load", "coord_load", "filter", "rank", "scale", "labels">>
          /\ \A st \in {"edge_load", "coord_load", "filter", "rank", "scale",
                          "labels"} : Times(st) = 1)

\* C3 happens: both files are read, no station has both a line and
\* coordinates, and the script has exited.
C3_Witness ==
  /\ pc = "exited"
  /\ lineStatus = "ok" /\ coordStatus = "ok"
  /\ G.nodes # <<>> /\ DOMAIN pos # {}
  /\ Range(G.nodes) \cap DOMAIN pos = {}

\* C4: whenever the script has exited on a fatal condition, a diagnostic is on
\* the error stream.
C4_DiagnosticOnStderr ==
  pc = "exited" => stderr # <<>>

MidpointMilli == ((min_display_size + max_display_size) * 1000) \div 2

\* C5: when all the values of sizes_log are equal, every display size is a
\* number (nothing was divided by zero) and is the midpoint of [5, 300].
C5_DegenerateMidpoint ==
  (Done("scale") /\ \A i, j \in 1..Len(sizes_log) : sizes_log[i] = sizes_log[j]) =>
    \A i \in 1..Len(node_sizes_scaled) :
      /\ ~node_sizes_scaled[i].nan
      /\ node_sizes_scaled[i].milli = MidpointMilli

FigureComplete ==
  /\ pc = "done"
  /\ canvas.shown
  /\ canvas.edges = G_filtered.edges
  /\ canvas.nodes = G_filtered.nodes
  /\ canvas.texts = Range(labels_to_draw)

\* C9: when the background map fails, a warning is on the error stream, the
\* script does not exit, it can go on until the figure is shown, and the figure
\* shown has every edge, every node and the selected labels; after the failure
\* of any other file the script has exited.
C9_MapFailureNotFatal ==
  /\ mapStatus = "failed" =>
       /\ \E i \in 1..Len(stderr) : stderr[i] = "warn_map"
       /\ pc # "exited"
       /\ pc # "done" => ENABLED Next
       /\ pc = "done" => FigureComplete
       /\ pc \in {"draw_nodes", "draw_labels", "show"} =>
            canvas.edges = G_filtered.edges
       /\ pc \in {"draw_labels", "show"} => canvas.nodes = G_filtered.nodes
       /\ pc = "show" => canvas.texts = Range(labels_to_draw)
  /\ (lineStatus \in FileFailures \/ coordStatus \in FileFailures) =>
       pc = "exited"

\* C9 happens: the figure is shown, with edges, without its background.
C9_Witness ==
  /\ mapStatus = "failed"
  /\ FigureComplete
  /\ ~canvas.background
  /\ canvas.edges # {}

\* C10: after the ranking stage there is one score for each node of G_filtered,
\* no score is negative, the scores sum to 1 within 1e-6, and a node without
\* incoming edges has a positive score.
C10_ScoresAreDistribution ==
  Done("rank") =>
    LET n == Len(pagerank_scores)
        total == SumSeq([i \in 1..n |-> pagerank_scores[i][2]])
    IN
    /\ n = Len(G_filtered.nodes)
    /\ n >= 1
    /\ \A i \in 1..n : pagerank_scores[i][1] = G_filtered.nodes[i]
    /\ \A i \in 1..n : pagerank_scores[i][2] >= 0
    /\ Abs(total - scoreDen) <= scoreDen \div 1000000
    /\ \A i \in 1..n :
         (\A e \in G_filtered.edges : e[2] # pagerank_scores[i][1])
           => pagerank_scores[i][2] > 0

\* C10 happens: three ranked stations, one without incoming edges, one
\* without outgoing edges, and scores that differ.
C10_Witness ==
  /\ pc = "scale"
  /\ Len(pagerank_scores) = 3
  /\ \E v \in Range(G_filtered.nodes) : \A e \in G_filtered.edges : e[2] # v
  /\ \E v \in Range(G_filtered.nodes) : \A e \in G_filtered.edges : e[1] # v
  /\ G_filtered.edges # {}
  /\ \E i, j \in 1..3 : pagerank_scores[i][2] # pagerank_scores[j][2]

\* C8: the labels are min(15, number of stations) stations of the ScoreMap, in
\* the order of non-increasing score; no labelled station has a score strictly
\* below that of a station left out; stations of equal score come in the order
\* of the ScoreMap; and the sorted items are the items of the ScoreMap, their
\* scores as they were.
C8_TopLabels ==
  Done("labels") =>
    LET n      == Len(pagerank_scores)
        k      == Len(labels_to_draw)
        all    == {pagerank_scores[i][1] : i \in 1..n}
        \* the place of a station in the ScoreMap, and its score there
        place  == [st \in all |-> CHOOSE i \in 1..n : pagerank_scores[i][1] = st]
        score  == [st \in all |-> pagerank_scores[place[st]][2]]
    IN
    /\ k = (IF n < 15 THEN n ELSE 15)
    /\ Range(labels_to_draw) \subseteq all
    /\ Cardinality(Range(labels_to_draw)) = k
    \* each label against the next one, which settles every pair
    /\ \A i \in 1..(k - 1) :
         /\ score[labels_to_draw[i]] >= score[labels_to_draw[i + 1]]
         /\ score[labels_to_draw[i]] = score[labels_to_draw[i + 1]]
              => place[labels_to_draw[i]] < place[labels_to_draw[i + 1]]
    \* the last label, the lowest, against every station left out
    /\ \A out \in all \ Range(labels_to_draw) :
         score[labels_to_draw[k]] >= score[out]
    /\ Len(sorted_stations) = n
    /\ Range(sorted_stations) = Range(pagerank_scores)

\* C8 happens: sixteen stations, fifteen labels, and a station left out whose
\* score is that of a labelled one.
C8_Witness ==
  /\ Done("labels")
  /\ Len(pagerank_scores) = 16
  /\ Len(labels_to_draw) = 15
  /\ \E i, j \in 1..16 :
       /\ i < j
       /\ pagerank_scores[i][2] = pagerank_scores[j][2]
       /\ pagerank_scores[i][1] \in Range(labels_to_draw)
       /\ pagerank_scores[j][1] \notin Range(labels_to_draw)
  /\ \E i \in 1..16 : pagerank_scores[i][2] # pagerank_scores[1][2]

====
